---- MODULE Spec2Model ----
(***************************************************************************)
(* dump-memory: the /proc/<pid>/maps record parser and its Display         *)
(* (src/src/memory.rs), the ptrace session with its lazily opened memory   *)
(* stream (src/src/ptrace.rs) and the per-region loop of main              *)
(* (src/src/main.rs).                                                      *)
(*                                                                         *)
(* A Rust &str / String is a sequence of one-character strings, an        *)
(* Option<T> is <<>> (None) or <<v>> (Some(v)), a Result<T> is             *)
(* [ok |-> TRUE, val |-> v] or [ok |-> FALSE, err |-> e].                  *)
(***************************************************************************)
EXTENDS Integers, Sequences, FiniteSets, TLC

VARIABLES
    line,       \* the text handed to a parser (a maps record, or a permissions string)
    parsed,     \* the Result of the parse of `line`
    rendered,   \* the Display rendering of the parsed Region
    ppc,        \* position of the parse / render pipeline
    pc,         \* position of main, or of the caller of a session
    pid,        \* main's pid argument
    process,    \* Option<Ptrace>: the live session [pid, mem], mem an Option<File>
    memory,     \* Memory.regions, the list main iterates
    idx,        \* position of main's for loop in memory
    buffer,     \* the caller's Vec<u8>: [len, raw], raw the allocation's bytes
    last,       \* Option: the last dump call, its arguments and its result
    events,     \* every attach, dump, write and detach so far, in order
    opened,     \* number of File::open of /proc/<pid>/mem that succeeded
    exit        \* main's outcome: "running", "ok" or "err"

pvars == <<line, parsed, rendered, ppc>>
svars == <<pc, pid, process, memory, idx, buffer, last, events, opened, exit>>
vars == <<line, parsed, rendered, ppc, pc, pid, process, memory, idx, buffer, last,
          events, opened, exit>>

(***************************************************************************)
(* Bounds.                                                                 *)
(***************************************************************************)
\* usize::MAX and u64::MAX of the model: the 64-bit widths scaled down so that
\* overflowing literals stay short.
MaxUsize == 65535
MaxU64 == 65535
\* u8::MAX, the width of Device.major and Device.minor.
MaxU8 == 255

(***************************************************************************)
(* Strings and options.                                                    *)
(***************************************************************************)
Chars(s) == [i \in 1..Len(s) |-> SubSeq(s, i, i)]

None == <<>>
Some(v) == <<v>>

Ok(v) == [ok |-> TRUE, val |-> v]
Err(e) == [ok |-> FALSE, err |-> e]

\* error.rs: the kinds of Error the parser produces.
MissingRegionField(f) == [kind |-> "MissingRegionField", field |-> f]
MalformedRegionField(f, v) == [kind |-> "MalformedRegionField", field |-> f, value |-> v]
\* impl From<ParseIntError> for Error
ParseIntError == [kind |-> "ParseIntError"]

\* u8::is_ascii_whitespace: space, tab, line feed, form feed, carriage return.
\* (lines() has already removed line feeds; the model's texts hold spaces and tabs.)
IsAsciiWhitespace(c) == c \in {" ", "\t", "\n", "\f", "\r"}

RECURSIVE SplitFrom(_, _, _, _)
\* str::split_ascii_whitespace: the maximal runs of non-whitespace, in order.
\* s: text, i: position, cur: token being read, acc: tokens read so far.
SplitFrom(s, i, cur, acc) ==
    IF i > Len(s)
    THEN IF cur = <<>> THEN acc ELSE Append(acc, cur)
    ELSE IF IsAsciiWhitespace(s[i])
         THEN SplitFrom(s, i + 1, <<>>, IF cur = <<>> THEN acc ELSE Append(acc, cur))
         ELSE SplitFrom(s, i + 1, Append(cur, s[i]), acc)

SplitAsciiWhitespace(s) == SplitFrom(s, 1, <<>>, <<>>)

\* Iterator::next on the token iterator, by position.
NextPart(parts, n) == IF n <= Len(parts) THEN Some(parts[n]) ELSE None

\* Positions of character c in s.
Positions(s, c) == {i \in 1..Len(s) : s[i] = c}

Min(S) == CHOOSE x \in S : \A y \in S : x <= y
Max(S) == CHOOSE x \in S : \A y \in S : x >= y

\* A plausible slip: a text with more than one c is refused, as one without any.
SplitOnceSingle(s, c) ==
    IF Cardinality(Positions(s, c)) # 1
    THEN None
    ELSE LET i == Min(Positions(s, c))
         IN Some(<<SubSeq(s, 1, i - 1), SubSeq(s, i + 1, Len(s))>>)

\* str::split_once: around the first occurrence of c.
SplitOnce(s, c) ==
    IF Positions(s, c) = {}
    THEN None
    ELSE LET i == Min(Positions(s, c))
         IN Some(<<SubSeq(s, 1, i - 1), SubSeq(s, i + 1, Len(s))>>)

\* str::rsplit_once: around the last occurrence of c.
RSplitOnce(s, c) ==
    IF Positions(s, c) = {}
    THEN None
    ELSE LET i == Max(Positions(s, c))
         IN Some(<<SubSeq(s, 1, i - 1), SubSeq(s, i + 1, Len(s))>>)

(***************************************************************************)
(* Integer parsing and formatting.                                         *)
(***************************************************************************)
LowerHex == Chars("0123456789abcdef")
UpperHex == Chars("0123456789ABCDEF")

IndexOf(seq, c) == Min({i \in 1..Len(seq) : seq[i] = c})

\* char::to_digit(radix): the digit's value, or -1 when c is no digit of the radix.
ToDigit(c, radix) ==
    LET v == IF \E i \in 1..Len(LowerHex) : LowerHex[i] = c
             THEN IndexOf(LowerHex, c) - 1
             ELSE IF \E i \in 1..Len(UpperHex) : UpperHex[i] = c
                  THEN IndexOf(UpperHex, c) - 1
                  ELSE -1
    IN IF v < radix THEN v ELSE -1

RECURSIVE Accumulate(_, _, _, _, _)
\* The digit loop of from_str_radix: checked multiply-and-add from the left.
\* Returns the value, -1 on an invalid digit, -2 on overflow above max.
Accumulate(digits, i, acc, radix, max) ==
    IF i > Len(digits)
    THEN acc
    ELSE LET d == ToDigit(digits[i], radix)
         IN IF d < 0
            THEN -1
            ELSE IF acc * radix + d > max
                 THEN -2
                 ELSE Accumulate(digits, i + 1, acc * radix + d, radix, max)

\* <unsigned>::from_str_radix(src, radix) for a type whose MAX is max: an empty
\* string and a lone sign are errors, one leading '+' is accepted, '-' is not a
\* digit of an unsigned type.
FromStrRadix(src, radix, max) ==
    IF src = <<>>
    THEN Err(ParseIntError)
    ELSE IF Len(src) = 1 /\ src[1] \in {"+", "-"}
         THEN Err(ParseIntError)
         ELSE LET digits == IF src[1] = "+" THEN Tail(src) ELSE src
                  v == Accumulate(digits, 1, 0, radix, max)
              IN IF v < 0 THEN Err(ParseIntError) ELSE Ok(v)

RECURSIVE LowerHexDigits(_)
LowerHexDigits(n) ==
    IF n < 16
    THEN <<LowerHex[n + 1]>>
    ELSE Append(LowerHexDigits(n \div 16), LowerHex[(n % 16) + 1])

\* format!("{:x}", n)
FmtHex(n) == LowerHexDigits(n)

\* format!("{:02x}", n)
FmtHex02(n) == IF n < 16 THEN <<"0">> \o LowerHexDigits(n) ELSE LowerHexDigits(n)

(***************************************************************************)
(* Permissions (memory.rs).                                                *)
(***************************************************************************)
\* enum PermissionBits, in the order Display for Permissions walks it.
PermissionBits == <<"Read", "Write", "Exec", "Private", "Shared">>

\* impl fmt::Display for PermissionBits
PermissionBitDisplay(pbit) ==
    CASE pbit = "Read" -> "r"
      [] pbit = "Write" -> "w"
      [] pbit = "Exec" -> "e"
      [] pbit = "Private" -> "p"
      [] pbit = "Shared" -> "s"

\* Permissions::has_perm: the bitset is the set of the bits that are set.
HasPerm(perms, pbit) == pbit \in perms

\* impl fmt::Display for Permissions: one character for each of the five bits.
PermissionsDisplay(perms) ==
    [i \in 1..Len(PermissionBits) |->
        IF HasPerm(perms, PermissionBits[i])
        THEN PermissionBitDisplay(PermissionBits[i])
        ELSE "-"]

\* match_char!: n is the Option<char> of chars.next(), arms maps each accepted
\* character to the bits its arm adds.
MatchChar(field, subfield, n, permissions, arms) ==
    IF n # None /\ n[1] \in DOMAIN arms
    THEN Ok(arms[n[1]])
    ELSE IF n # None
         THEN Err(MalformedRegionField(field \o "-" \o subfield, <<n[1]>>))
         ELSE Err(MalformedRegionField(field, permissions))

ReadArms == [c \in {"r", "-"} |-> IF c = "r" THEN {"Read"} ELSE {}]
WriteArms == [c \in {"w", "-"} |-> IF c = "w" THEN {"Write"} ELSE {}]
ExecArms == [c \in {"x", "-"} |-> IF c = "x" THEN {"Exec"} ELSE {}]
SharingArms == [c \in {"p", "s"} |-> IF c = "p" THEN {"Private"} ELSE {"Shared"}]

\* A plausible slip: the length is checked before any character is looked at.
PermissionsFromStrLengthFirst(s) ==
    IF Len(s) < 4
    THEN Err(MalformedRegionField("permissions", s))
    ELSE LET r1 == MatchChar("permissions", "read", NextPart(s, 1), s, ReadArms)
             r2 == MatchChar("permissions", "write", NextPart(s, 2), s, WriteArms)
             r3 == MatchChar("permissions", "exec", NextPart(s, 3), s, ExecArms)
             r4 == MatchChar("permissions", "private/shared", NextPart(s, 4), s, SharingArms)
         IN IF ~r1.ok THEN r1
            ELSE IF ~r2.ok THEN r2
            ELSE IF ~r3.ok THEN r3
            ELSE IF ~r4.ok THEN r4
            ELSE Ok(r1.val \cup r2.val \cup r3.val \cup r4.val)

\* impl FromStr for Permissions: four match_char! in a row, each returning early.
PermissionsFromStr(s) ==
    LET r1 == MatchChar("permissions", "read", NextPart(s, 1), s, ReadArms)
        r2 == MatchChar("permissions", "write", NextPart(s, 2), s, WriteArms)
        r3 == MatchChar("permissions", "exec", NextPart(s, 3), s, ExecArms)
        r4 == MatchChar("permissions", "private/shared", NextPart(s, 4), s, SharingArms)
    IN IF ~r1.ok THEN r1
       ELSE IF ~r2.ok THEN r2
       ELSE IF ~r3.ok THEN r3
       ELSE IF ~r4.ok THEN r4
       ELSE Ok(r1.val \cup r2.val \cup r3.val \cup r4.val)

(***************************************************************************)
(* Region (memory.rs).                                                     *)
(***************************************************************************)
\* What from_str does once the five fields are in hand (lines 152-188).
ParseFields(start_end, permissions, offset, device, inode, file) ==
    LET se == SplitOnce(start_end, "-")
    IN IF se = None
       THEN Err(MalformedRegionField("start-end", start_end))
       ELSE
       LET start == FromStrRadix(se[1][1], 16, MaxUsize)
           end == FromStrRadix(se[1][2], 16, MaxUsize)
           perms == PermissionsFromStr(permissions)
           off == FromStrRadix(offset, 16, MaxUsize)
           mm == RSplitOnce(device, ":")
       IN IF ~start.ok THEN start
          ELSE IF ~end.ok THEN end
          ELSE IF ~perms.ok THEN perms
          ELSE IF ~off.ok THEN off
          ELSE IF mm = None THEN Err(MalformedRegionField("device", device))
          ELSE
          LET major == FromStrRadix(mm[1][1], 16, MaxU8)
              minor == FromStrRadix(mm[1][2], 16, MaxU8)
              ino == FromStrRadix(inode, 10, MaxU64)
          IN IF ~major.ok THEN major
             ELSE IF ~minor.ok THEN minor
             ELSE IF ~ino.ok THEN ino
             ELSE Ok([start |-> start.val, end |-> end.val, perms |-> perms.val,
                      offset |-> off.val,
                      dev |-> [major |-> major.val, minor |-> minor.val],
                      inode |-> ino.val, file |-> file])

\* A plausible slip: start_end is validated as soon as it is read, before the
\* later fields are known to be present.
RegionFromStrEager(s) ==
    LET parts == SplitAsciiWhitespace(s)
        start_end == NextPart(parts, 1)
        permissions == NextPart(parts, 2)
        offset == NextPart(parts, 3)
        device == NextPart(parts, 4)
        inode == NextPart(parts, 5)
        file == NextPart(parts, 6)
    IN IF start_end = None THEN Err(MissingRegionField("start-end"))
       ELSE IF SplitOnce(start_end[1], "-") = None
            THEN Err(MalformedRegionField("start-end", start_end[1]))
       ELSE IF permissions = None THEN Err(MissingRegionField("permissions"))
       ELSE IF offset = None THEN Err(MissingRegionField("offset"))
       ELSE IF device = None THEN Err(MissingRegionField("device"))
       ELSE IF inode = None THEN Err(MissingRegionField("inode"))
       ELSE ParseFields(start_end[1], permissions[1], offset[1], device[1], inode[1], file)

\* impl FromStr for Region: the five parts.next() come first, each with its
\* ok_or(MissingRegionField)?, then the sixth, then the fields are parsed.
RegionFromStr(s) ==
    LET parts == SplitAsciiWhitespace(s)
        start_end == NextPart(parts, 1)
        permissions == NextPart(parts, 2)
        offset == NextPart(parts, 3)
        device == NextPart(parts, 4)
        inode == NextPart(parts, 5)
        file == NextPart(parts, 6)
    IN IF start_end = None THEN Err(MissingRegionField("start-end"))
       ELSE IF permissions = None THEN Err(MissingRegionField("permissions"))
       ELSE IF offset = None THEN Err(MissingRegionField("offset"))
       ELSE IF device = None THEN Err(MissingRegionField("device"))
       ELSE IF inode = None THEN Err(MissingRegionField("inode"))
       ELSE ParseFields(start_end[1], permissions[1], offset[1], device[1], inode[1], file)

\* Region::size
Size(region) == region.end - region.start

RECURSIVE TrimTrailing(_)
\* Path::components ignores trailing separators and trailing "." components.
TrimTrailing(p) ==
    IF p # <<>> /\ p[Len(p)] = "/"
    THEN TrimTrailing(SubSeq(p, 1, Len(p) - 1))
    ELSE IF Len(p) >= 2 /\ p[Len(p)] = "." /\ p[Len(p) - 1] = "/"
         THEN TrimTrailing(SubSeq(p, 1, Len(p) - 2))
         ELSE p

\* Path::file_name: the last component, None when there is none or it is "..".
PathFileName(p) ==
    LET t == TrimTrailing(p)
        comp == IF Positions(t, "/") = {}
                THEN t
                ELSE SubSeq(t, Max(Positions(t, "/")) + 1, Len(t))
    IN IF t = <<>> \/ comp = Chars("..") \/ comp = Chars(".")
       THEN None
       ELSE Some(comp)

\* Region::filename
Filename(region) == IF region.file = None THEN None ELSE PathFileName(region.file[1])

\* impl fmt::Display for Region
RegionDisplay(region) ==
    LET head == FmtHex(region.start) \o <<"-">> \o FmtHex(region.end) \o <<"_">>
                \o PermissionsDisplay(region.perms) \o <<"_", "+">>
                \o FmtHex(region.offset) \o <<"_">>
                \o FmtHex02(region.dev.major) \o <<":">> \o FmtHex02(region.dev.minor)
                \o <<"_">> \o FmtHex(region.inode)
    IN IF Filename(region) # None
       THEN head \o <<"_">> \o Filename(region)[1]
       ELSE head

(***************************************************************************)
(* The traced process and the caller's Vec<u8>.                            *)
(***************************************************************************)
\* Highest address of the modelled address space.
MaxAddr == 2
\* Longest maps file main loads, in lines.
MaxRegions == 3
\* Number of dump calls a caller of a session makes.
MaxCalls == 2

\* The byte of the traced process at address a: what /proc/<pid>/mem yields there.
ProcMem(a) == (a * 37 + 11) % 256

\* The bytes at [start, end) of the memory stream.
MemBytes(start, end) == [i \in 1..(end - start) |-> ProcMem(start + i - 1)]

\* What an uninitialised byte of a fresh allocation may hold.
UninitBytes == {0, 170}

\* The caller-visible contents of a Vec: its first len bytes.
Visible(v) == SubSeq(v.raw, 1, v.len)

\* Vec::new
VecNew == [len |-> 0, raw |-> <<>>]

\* A plausible slip: the buffer is not emptied between regions.
VecKeep(v) == v

\* Vec::clear: the length drops to 0, the allocation stays.
VecClear(v) == [v EXCEPT !.len = 0]

\* Vec::reserve(additional): room for len + additional bytes; new room is uninitialised.
VecReserve(v, additional, fill) ==
    IF Len(v.raw) >= v.len + additional
    THEN v
    ELSE [v EXCEPT !.raw = v.raw \o [i \in 1..(v.len + additional - Len(v.raw)) |-> fill]]

\* Vec::set_len
VecSetLen(v, n) == [v EXCEPT !.len = n]

\* A plausible slip: the length is left extended after a failed read.
RollBackForgotten(v, old_len) == v

\* ptrace.rs:71, the Err arm of dump: set_len(old_len).
RollBack(v, old_len) == VecSetLen(v, old_len)

\* A plausible slip: the stream is read from its beginning, not from the region.
SeekTargetZero(region) == 0

\* ptrace.rs:55-60: the absolute offset dump seeks to.
SeekTarget(region) == region.start

\* read_exact(&mut buffer[old_len..]) from stream position pos when the stream
\* delivers got bytes before it ends or fails: those bytes land, the rest of the
\* slice keeps what the allocation held.
ReadExact(v, old_len, pos, got) ==
    [v EXCEPT !.raw = [i \in 1..Len(v.raw) |->
        IF old_len < i /\ i <= old_len + got
        THEN ProcMem(pos + i - old_len - 1)
        ELSE v.raw[i]]]

\* Error::IO, by impl From<io::Error> for Error; `io` is the io::Error's origin.
IOError(io) == [kind |-> "IO", io |-> io]
\* Error::Ptrace
PtraceError == [kind |-> "Ptrace"]

DumpOk == [outcome |-> "Ok"]
DumpErr(e) == [outcome |-> "Err", err |-> e]
DumpPanic == [outcome |-> "Panic"]

\* What the kernel answers during one dump call: whether File::open and seek
\* succeed, how many bytes the stream delivers before it ends (eof) or fails,
\* and what a freshly reserved byte holds.
DumpEnvs(size) ==
    [open : BOOLEAN, seek : BOOLEAN, got : 0..size, eof : BOOLEAN, fill : UninitBytes]

\* A plausible slip: the stream is opened on every call, replacing the handle.
OpenMemAlways(session, env, fresh) ==
    IF env.open
    THEN [ok |-> TRUE, session |-> [session EXCEPT !.mem = Some(fresh)], opens |-> 1,
          tried |-> TRUE]
    ELSE [ok |-> FALSE, session |-> session, opens |-> 0, tried |-> TRUE]

\* Ptrace::open_mem: opens /proc/<pid>/mem only when no handle is cached; fresh
\* names the File a successful open returns.
OpenMem(session, env, fresh) ==
    IF session.mem = None
    THEN IF env.open
         THEN [ok |-> TRUE, session |-> [session EXCEPT !.mem = Some(fresh)],
               opens |-> 1, tried |-> TRUE]
         ELSE [ok |-> FALSE, session |-> session, opens |-> 0, tried |-> TRUE]
    ELSE [ok |-> TRUE, session |-> session, opens |-> 0, tried |-> FALSE]

\* Ptrace::dump. region.size() with start > end panics (overflow check, or
\* reserve's capacity overflow once the subtraction has wrapped) before set_len.
Dump(session, region, buf, env, fresh) ==
    LET o == OpenMem(session, env, fresh)
    IN IF ~o.ok
       THEN [session |-> o.session, opens |-> o.opens, tried |-> o.tried,
             buffer |-> buf,
             result |-> DumpErr(IOError("open"))]
       ELSE IF ~env.seek
       THEN [session |-> o.session, opens |-> o.opens, tried |-> o.tried,
             buffer |-> buf,
             result |-> DumpErr(IOError("seek"))]
       ELSE IF Size(region) < 0
       THEN [session |-> o.session, opens |-> o.opens, tried |-> o.tried,
             buffer |-> buf,
             result |-> DumpPanic]
       ELSE
       LET size == Size(region)
           reserved == VecReserve(buf, size, env.fill)
           old_len == reserved.len
           extended == VecSetLen(reserved, old_len + size)
           filled == ReadExact(extended, old_len, SeekTarget(region), env.got)
       IN IF env.got >= size
          THEN [session |-> o.session, opens |-> o.opens, tried |-> o.tried,
                buffer |-> filled, result |-> DumpOk]
          ELSE [session |-> o.session, opens |-> o.opens, tried |-> o.tried,
                buffer |-> RollBack(filled, old_len),
                result |-> DumpErr(IOError(IF env.eof THEN "UnexpectedEof" ELSE "read"))]

\* The record `last` keeps of a dump call: its arguments, the session's handle
\* before it, whether it called File::open, and its result.
CallRecord(session, region, buf, d) ==
    Some([region |-> region, pre |-> Visible(buf), memBefore |-> session.mem,
          tried |-> d.tried, result |-> d.result])

(***************************************************************************)
(* Memory::from_pid (memory.rs) and Ptrace::new / Drop (ptrace.rs).        *)
(***************************************************************************)
RECURSIVE ParseLines(_, _, _)
\* The loop of Memory::from_pid: regions.push(line.parse::<Region>()?).
ParseLines(lines, i, regions) ==
    IF i > Len(lines)
    THEN Ok(regions)
    ELSE LET r == RegionFromStr(lines[i])
         IN IF ~r.ok THEN r ELSE ParseLines(lines, i + 1, Append(regions, r.val))

\* Memory::from_pid: maps is the Option of what read_to_string returned.
MemoryFromPid(maps) ==
    IF maps = None THEN Err(IOError("maps")) ELSE ParseLines(maps[1], 1, <<>>)

\* Ptrace::new: the session exists only when PTRACE_ATTACH succeeded.
PtraceNew(p, attached) ==
    IF attached THEN Ok([pid |-> p, mem |-> None]) ELSE Err(PtraceError)

Event(op, p, ok, i, name, data) ==
    [op |-> op, pid |-> p, ok |-> ok, idx |-> i, name |-> name, data |-> data]

\* A plausible slip: a failed write ends the process at once (process::exit),
\* which runs no destructor.
OnWriteErrorExit == "exited"

\* main.rs:55: the ? on fs::write returns from main, which drops `process`.
OnWriteError == "dropping"

(***************************************************************************)
(* Inputs.                                                                 *)
(***************************************************************************)
Pids == {7, 4242}

\* The texts of /proc/<pid>/maps lines main may be given: the kernel writes
\* start < end; the last one is malformed.
MapLineTexts ==
    {"0-2 r--p 0 00:00 0",
     "2-3 rw-p 0 00:00 0     [heap]",
     "1-4 r-xp 10 08:01 26   /bin/cat",
     "3-4 rw-q 0 00:00 0"}

MapFiles == UNION {[1..n -> {Chars(t) : t \in MapLineTexts}] : n \in 0..MaxRegions}

\* A Region a caller of dump may pass: only start and end matter to dump.
MkRegion(start, end) ==
    [start |-> start, end |-> end, perms |-> {"Read", "Private"}, offset |-> 0,
     dev |-> [major |-> 0, minor |-> 0], inode |-> 0, file |-> None]

\* Every region of the address space, and one whose start lies above its end.
CallerRegions ==
    {MkRegion(a, b) : <<a, b>> \in {x \in (0..MaxAddr) \X (0..MaxAddr) : x[1] <= x[2]}}
    \cup {MkRegion(MaxAddr, 0)}

\* The buffers a caller may hand to its first dump: empty, holding a byte, and
\* holding a byte with spare capacity.
CallerBuffers ==
    {VecNew, [len |-> 1, raw |-> <<7>>], [len |-> 1, raw |-> <<7, 9>>]}

RECURSIVE Join(_, _)
Join(toks, sep) ==
    IF toks = <<>> THEN <<>>
    ELSE IF Len(toks) = 1 THEN toks[1]
    ELSE toks[1] \o sep \o Join(Tail(toks), sep)

StartEndTokens == {"1-2", "0A-1f", "12", "1-2-3", "1-g", "+1-2", "1-", "10000-1"}
PermissionTokens == {"r--p", "rwxs", "r-xp", "rwxq", "rw"}
OffsetTokens == {"0", "00d0", "g"}
DeviceTokens == {"00:00", "fe:01", "8:1", "0801", "100:0"}
InodeTokens == {"0", "26", "1a"}
\* What follows the inode: nothing, trailing blanks, a path, a path with spaces.
Remainders == {"", " ", "    /usr/bin/nvim", " [heap]", " /tmp/my file", " /srv/a b  (deleted)"}

FieldTuples ==
    {<<Chars(a), Chars(b), Chars(c), Chars(d), Chars(e)>> :
        <<a, b, c, d, e>> \in StartEndTokens \X PermissionTokens \X OffsetTokens
                              \X DeviceTokens \X InodeTokens}

\* Records with all five fields, records cut after 0..4 fields, and records
\* with tabs and runs of blanks.
RecordLines ==
    {Join(t, <<" ">>) \o Chars(r) : t \in FieldTuples, r \in Remainders}
    \cup {Join(SubSeq(t, 1, k), <<" ">>) : t \in FieldTuples, k \in 0..4}
    \cup {Chars(x) : x \in {"\t1-2  r--p\t0 00:00 0 ", "  12   rwxq ", "   ",
                             "1-2 r--p 0 00:00 26 a b c"}}

\* Longest permissions string handed to Permissions::from_str.
MaxPermLen == 5
PermAlphabet == {"r", "w", "x", "p", "s", "-", "q"}
PermStrings == UNION {[1..n -> PermAlphabet] : n \in 0..MaxPermLen}

(***************************************************************************)
(* Specifications.                                                         *)
(***************************************************************************)
Unparsed == Err([kind |-> "Unparsed"])

ParserIdle ==
    /\ line = <<>>
    /\ parsed = Unparsed
    /\ rendered = <<>>
    /\ ppc = "idle"

SessionIdle ==
    /\ pc = "idle"
    /\ pid = 0
    /\ process = None
    /\ memory = <<>>
    /\ idx = 1
    /\ buffer = VecNew
    /\ last = None
    /\ events = <<>>
    /\ opened = 0
    /\ exit = "running"

\* ---- the record parser and Display, on every line of RecordLines ----
ParseInit ==
    /\ line \in RecordLines
    /\ parsed = Unparsed
    /\ rendered = <<>>
    /\ ppc = "input"
    /\ SessionIdle

\* line.parse::<Region>()
ParseRegion ==
    /\ ppc = "input"
    /\ parsed' = RegionFromStr(line)
    /\ ppc' = "parsed"
    /\ UNCHANGED <<line, rendered>>
    /\ UNCHANGED svars

\* format!("{}", region)
DisplayRegion ==
    /\ ppc = "parsed"
    /\ parsed.ok
    /\ rendered' = RegionDisplay(parsed.val)
    /\ ppc' = "rendered"
    /\ UNCHANGED <<line, parsed>>
    /\ UNCHANGED svars

ParseNext == ParseRegion \/ DisplayRegion

ParseSpec == ParseInit /\ [][ParseNext]_vars

\* ---- Permissions::from_str, on every string of PermStrings ----
PermInit ==
    /\ line \in PermStrings
    /\ parsed = Unparsed
    /\ rendered = <<>>
    /\ ppc = "input"
    /\ SessionIdle

\* s.parse::<Permissions>(), then its Display
ParsePermissions ==
    /\ ppc = "input"
    /\ parsed' = PermissionsFromStr(line)
    /\ ppc' = "parsed"
    /\ rendered' = IF parsed'.ok THEN PermissionsDisplay(parsed'.val) ELSE <<>>
    /\ UNCHANGED line
    /\ UNCHANGED svars

PermNext == ParsePermissions

PermSpec == PermInit /\ [][PermNext]_vars

\* ---- Drop for Ptrace, shared by main and by a caller of the session ----
DropProcess ==
    /\ pc = "dropping"
    /\ \E detached \in BOOLEAN :
          events' = Append(events, Event("detach", process[1].pid, detached, 0, <<>>, <<>>))
    /\ process' = None
    /\ pc' = "exited"
    /\ UNCHANGED <<pid, memory, idx, buffer, last, opened, exit>>
    /\ UNCHANGED pvars

\* ---- main ----
Init ==
    /\ ParserIdle
    /\ pc = "start"
    /\ pid = 0
    /\ process = None
    /\ memory = <<>>
    /\ idx = 1
    /\ buffer = VecNew
    /\ last = None
    /\ events = <<>>
    /\ opened = 0
    /\ exit = "running"

\* main.rs:23-36: the arguments and the output directory.
Setup ==
    /\ pc = "start"
    /\ \E p \in Pids, ready \in BOOLEAN :
          /\ pid' = p
          /\ pc' = IF ready THEN "attach" ELSE "exited"
          /\ exit' = IF ready THEN exit ELSE "err"
    /\ UNCHANGED <<process, memory, idx, buffer, last, events, opened>>
    /\ UNCHANGED pvars

\* main.rs:37: Ptrace::new(pid)?
Attach ==
    /\ pc = "attach"
    /\ \E attached \in BOOLEAN :
          LET r == PtraceNew(pid, attached)
          IN /\ events' = Append(events, Event("attach", pid, attached, 0, <<>>, <<>>))
             /\ process' = IF r.ok THEN Some(r.val) ELSE None
             /\ pc' = IF r.ok THEN "load" ELSE "exited"
             /\ exit' = IF r.ok THEN exit ELSE "err"
    /\ UNCHANGED <<pid, memory, idx, buffer, last, opened>>
    /\ UNCHANGED pvars

\* main.rs:38-40: Memory::from_pid(pid)? and Vec::new()
LoadMaps ==
    /\ pc = "load"
    /\ \E maps \in {None} \cup {Some(f) : f \in MapFiles} :
          LET m == MemoryFromPid(maps)
          IN /\ memory' = IF m.ok THEN m.val ELSE memory
             /\ pc' = IF m.ok THEN "loop" ELSE "dropping"
             /\ exit' = IF m.ok THEN exit ELSE "err"
    /\ buffer' = VecNew
    /\ idx' = 1
    /\ UNCHANGED <<pid, process, last, events, opened>>
    /\ UNCHANGED pvars

\* main.rs:41-63: one turn of the for loop: clear, dump, then continue or write.
\* The eprintln!/println! reports (main.rs:44-51, 56-62) change no state and are
\* left out; they call region.path(), which memory.rs does not define.
Iterate ==
    /\ pc = "loop"
    /\ idx <= Len(memory)
    /\ \E env \in DumpEnvs(Size(memory[idx])), wrote \in BOOLEAN :
          LET region == memory[idx]
              cleared == VecClear(buffer)
              d == Dump(process[1], region, cleared, env, opened + 1)
              dumped == Event("dump", pid, d.result.outcome = "Ok", idx, <<>>, <<>>)
              write == Event("write", pid, wrote, idx, RegionDisplay(region),
                             Visible(d.buffer))
          IN /\ process' = Some(d.session)
             /\ opened' = opened + d.opens
             /\ buffer' = d.buffer
             /\ last' = CallRecord(process[1], region, cleared, d)
             /\ IF d.result.outcome = "Err"
                THEN /\ events' = Append(events, dumped)
                     /\ idx' = idx + 1
                     /\ UNCHANGED <<pc, exit>>
                ELSE IF d.result.outcome = "Panic"
                THEN /\ events' = Append(events, dumped)
                     /\ pc' = "dropping"
                     /\ exit' = "panic"
                     /\ UNCHANGED idx
                ELSE /\ events' = events \o <<dumped, write>>
                     /\ idx' = IF wrote THEN idx + 1 ELSE idx
                     /\ pc' = IF wrote THEN pc ELSE OnWriteError
                     /\ exit' = IF wrote THEN exit ELSE "err"
    /\ UNCHANGED <<pid, memory>>
    /\ UNCHANGED pvars

\* main.rs:65: Ok(()) once the loop is over.
LoopEnd ==
    /\ pc = "loop"
    /\ idx > Len(memory)
    /\ pc' = "dropping"
    /\ exit' = "ok"
    /\ UNCHANGED <<pid, process, memory, idx, buffer, last, events, opened>>
    /\ UNCHANGED pvars

Next == Setup \/ Attach \/ LoadMaps \/ Iterate \/ LoopEnd \/ DropProcess

Spec == Init /\ [][Next]_vars

\* main is one thread of blocking calls: each step that can be taken is taken.
FairSpec == Spec /\ WF_vars(Next)

\* ---- a caller of one session: any dump calls on any buffer, then the drop ----
DumpInit ==
    /\ ParserIdle
    /\ pc = "session"
    /\ pid \in Pids
    /\ process = Some(PtraceNew(pid, TRUE).val)
    /\ memory = <<>>
    /\ idx = 1
    /\ buffer \in CallerBuffers
    /\ last = None
    /\ events = <<Event("attach", pid, TRUE, 0, <<>>, <<>>)>>
    /\ opened = 0
    /\ exit = "running"

\* process.dump(&region, &mut buffer); a panic unwinds through the caller.
CallDump ==
    /\ pc = "session"
    /\ idx <= MaxCalls
    /\ \E region \in CallerRegions :
          \E env \in DumpEnvs(IF Size(region) < 0 THEN 0 ELSE Size(region)) :
             LET d == Dump(process[1], region, buffer, env, opened + 1)
             IN /\ process' = Some(d.session)
                /\ opened' = opened + d.opens
                /\ buffer' = d.buffer
                /\ last' = CallRecord(process[1], region, buffer, d)
                /\ events' = Append(events, Event("dump", pid, d.result.outcome = "Ok",
                                                  idx, <<>>, <<>>))
                /\ pc' = IF d.result.outcome = "Panic" THEN "dropping" ELSE pc
                /\ exit' = IF d.result.outcome = "Panic" THEN "panic" ELSE exit
    /\ idx' = idx + 1
    /\ UNCHANGED <<pid, memory>>
    /\ UNCHANGED pvars

\* The caller lets go of the session.
CallerDone ==
    /\ pc = "session"
    /\ pc' = "dropping"
    /\ exit' = "ok"
    /\ UNCHANGED <<pid, process, memory, idx, buffer, last, events, opened>>
    /\ UNCHANGED pvars

DumpNext == CallDump \/ CallerDone \/ DropProcess

DumpSpec == DumpInit /\ [][DumpNext]_vars

(***************************************************************************)
(* Vocabulary of the properties: the fields of a line, read off the text   *)
(* itself, and the events of a run.                                        *)
(***************************************************************************)
FieldStarts(s) ==
    {i \in 1..Len(s) : ~IsAsciiWhitespace(s[i]) /\ (i = 1 \/ IsAsciiWhitespace(s[i - 1]))}

FieldCount(s) == Cardinality(FieldStarts(s))

NthStart(s, n) ==
    CHOOSE i \in FieldStarts(s) : Cardinality({j \in FieldStarts(s) : j <= i}) = n

FieldEnd(s, i) == Min({j \in i..Len(s) : j = Len(s) \/ IsAsciiWhitespace(s[j + 1])})

\* The n-th whitespace-separated field of s.
Field(s, n) == SubSeq(s, NthStart(s, n), FieldEnd(s, NthStart(s, n)))

\* What follows the fifth field, from its first non-blank character to the end.
RestOfLine(s) ==
    IF FieldCount(s) >= 6 THEN Some(SubSeq(s, NthStart(s, 6), Len(s))) ELSE None

FieldNames == <<"start-end", "permissions", "offset", "device", "inode">>

ToLower(c) ==
    IF \E i \in 1..Len(UpperHex) : UpperHex[i] = c
    THEN LowerHex[IndexOf(UpperHex, c)]
    ELSE c

RECURSIVE StripZeros(_)
StripZeros(t) == IF Len(t) > 1 /\ t[1] = "0" THEN StripZeros(Tail(t)) ELSE t

\* A number as written in the line, with case and padding normalised.
NormHex(t) ==
    LET u == IF t # <<>> /\ t[1] = "+" THEN Tail(t) ELSE t
    IN StripZeros([i \in 1..Len(u) |-> ToLower(u[i])])

Pad2(t) == IF Len(t) < 2 THEN <<"0">> \o t ELSE t

\* The render that reproduces every field of the line l.
CanonicalRender(l) ==
    LET se == Field(l, 1)
        dash == Min(Positions(se, "-"))
        dev == Field(l, 4)
        colon == Max(Positions(dev, ":"))
        head == NormHex(SubSeq(se, 1, dash - 1)) \o <<"-">>
                \o NormHex(SubSeq(se, dash + 1, Len(se))) \o <<"_">>
                \o Field(l, 2) \o <<"_", "+">> \o NormHex(Field(l, 3)) \o <<"_">>
                \o Pad2(NormHex(SubSeq(dev, 1, colon - 1))) \o <<":">>
                \o Pad2(NormHex(SubSeq(dev, colon + 1, Len(dev)))) \o <<"_">>
                \o StripZeros(Field(l, 5))
        path == RestOfLine(l)
    IN IF path # None /\ PathFileName(path[1]) # None
       THEN head \o <<"_">> \o PathFileName(path[1])[1]
       ELSE head

AllowedAt == <<{"r", "-"}, {"w", "-"}, {"x", "-"}, {"p", "s"}>>
SubFieldNames ==
    <<"permissions-read", "permissions-write", "permissions-exec",
      "permissions-private/shared">>

\* The positions of s, among the first four, holding a character not allowed there.
BadPositions(s) == {i \in 1..Len(s) : i <= 4 /\ s[i] \notin AllowedAt[i]}

\* start-end does not split on a single '-' into two halves that parse as hex.
BadStartEnd(t) ==
    LET P == Positions(t, "-")
    IN \/ Cardinality(P) # 1
       \/ ~FromStrRadix(SubSeq(t, 1, Min(P) - 1), 16, MaxUsize).ok
       \/ ~FromStrRadix(SubSeq(t, Min(P) + 1, Len(t)), 16, MaxUsize).ok

Dumps == SelectSeq(events, LAMBDA e : e.op = "dump")
Writes == SelectSeq(events, LAMBDA e : e.op = "write")
Detaches == SelectSeq(events, LAMBDA e : e.op = "detach")
AttachedOk == \E i \in 1..Len(events) : events[i].op = "attach" /\ events[i].ok
AttachFailed == \E i \in 1..Len(events) : events[i].op = "attach" /\ ~events[i].ok

ReadFailed(c) ==
    c.result.outcome = "Err" /\ c.result.err.io \in {"read", "UnexpectedEof"}
OpenFailed(c) == c.result.outcome = "Err" /\ c.result.err.io = "open"

(***************************************************************************)
(* Properties.                                                             *)
(***************************************************************************)
\* C1: when dump fails because the read of the memory stream fails or comes up
\* short, it returns an IO error and the caller's buffer has its pre-call
\* length and contents.
C1_FailedReadRestoresBuffer ==
    \A i \in 1..Len(last) :
        ReadFailed(last[i]) =>
            /\ last[i].result.err.kind = "IO"
            /\ buffer.len = Len(last[i].pre)
            /\ Visible(buffer) = last[i].pre

\* A short read of a 2-byte region into a non-empty buffer: one byte landed in
\* the allocation, past the restored length.
C1_Witness ==
    /\ last # None
    /\ ReadFailed(last[1])
    /\ last[1].result.err.io = "UnexpectedEof"
    /\ Size(last[1].region) = 2
    /\ last[1].pre = <<7>>
    /\ Len(buffer.raw) = 3
    /\ buffer.raw[2] = ProcMem(last[1].region.start)

\* C2: when dump succeeds on a buffer of length L, the buffer has length
\* L + region.size(), keeps its first L bytes, and the appended bytes are the
\* memory stream's bytes at [region.start, region.end).
C2_SuccessAppendsRegionBytes ==
    \A i \in 1..Len(last) :
        last[i].result.outcome = "Ok" =>
            LET L == Len(last[i].pre)
                r == last[i].region
            IN /\ buffer.len = L + Size(r)
               /\ SubSeq(Visible(buffer), 1, L) = last[i].pre
               /\ SubSeq(Visible(buffer), L + 1, buffer.len) = MemBytes(r.start, r.end)

\* A successful dump of [1, 2) appended to a non-empty buffer.
C2_Witness ==
    /\ last # None
    /\ last[1].result.outcome = "Ok"
    /\ last[1].region.start = 1
    /\ last[1].region.end = 2
    /\ last[1].pre # <<>>
    /\ buffer.len = Len(last[1].pre) + 1

\* C3: a detach is requested exactly once per session, after its attach and
\* for its pid, whichever way main ends; no dump follows the detach; a failed
\* attach leaves no session and no detach; every attached run reaches its detach.
C3_Safety ==
    /\ Len(Detaches) <= 1
    /\ \A i \in 1..Len(events) :
          events[i].op = "detach" =>
             /\ \E j \in 1..(i - 1) :
                   events[j].op = "attach" /\ events[j].ok /\ events[j].pid = events[i].pid
             /\ \A j \in (i + 1)..Len(events) : events[j].op \notin {"dump", "detach"}
    /\ AttachFailed => (process = None /\ Len(Detaches) = 0)
    /\ process # None => (AttachedOk /\ Len(Detaches) = 0)
    /\ (pc = "exited" /\ AttachedOk) => Len(Detaches) = 1

\* C3: the rules above hold in every state, and an attached run always
\* reaches the state where its one detach has been requested.
C3_DetachExactlyOnce == [](C3_Safety) /\ (AttachedOk ~> (Len(Detaches) = 1))

\* main ended on a failed write, after a failed dump, and the detach was issued.
C3_Witness ==
    /\ pc = "exited"
    /\ exit = "err"
    /\ Len(Detaches) = 1
    /\ \E i \in 1..Len(Writes) : ~Writes[i].ok
    /\ \E i \in 1..Len(Dumps) : ~Dumps[i].ok

\* C4: parse then Display reproduces the line's addresses, permission string,
\* offset, device, inode and filename, up to case and padding.
C4_RoundTrip == ppc = "rendered" => rendered = CanonicalRender(line)

\* C5: a line with k < 5 fields fails with MissingRegionField naming the
\* (k+1)-th field, whatever the fields that are present hold.
C5_MissingFieldNamed ==
    (ppc # "input" /\ FieldCount(line) < 5) =>
        parsed = Err(MissingRegionField(FieldNames[FieldCount(line) + 1]))

\* Three fields, each of them malformed: the missing device is what is reported.
C5_Witness ==
    /\ ppc = "parsed"
    /\ line = Chars("12 rwxq g")
    /\ parsed = Err(MissingRegionField("device"))

\* C6 as stated: the first bad position is named with its character; a string
\* of fewer than 4 characters is reported as "permissions" with the whole
\* string; a success sets exactly one of Private and Shared.
C6_Original ==
    ppc = "parsed" =>
        /\ BadPositions(line) # {} =>
              parsed = Err(MalformedRegionField(SubFieldNames[Min(BadPositions(line))],
                                                <<line[Min(BadPositions(line))]>>))
        /\ Len(line) < 4 => parsed = Err(MalformedRegionField("permissions", line))
        /\ parsed.ok => Cardinality(parsed.val \cap {"Private", "Shared"}) = 1

\* C6 amended: the whole-string report is for a string of fewer than 4
\* characters all of which are allowed at their positions.
C6_FirstBadPositionNamed ==
    ppc = "parsed" =>
        /\ BadPositions(line) # {} =>
              parsed = Err(MalformedRegionField(SubFieldNames[Min(BadPositions(line))],
                                                <<line[Min(BadPositions(line))]>>))
        /\ (Len(line) < 4 /\ BadPositions(line) = {}) =>
              parsed = Err(MalformedRegionField("permissions", line))
        /\ parsed.ok => Cardinality(parsed.val \cap {"Private", "Shared"}) = 1

\* A two-character string whose second character is not allowed: the
\* character is reported, not the short string.
C6_Witness ==
    /\ ppc = "parsed"
    /\ line = <<"r", "q">>
    /\ parsed = Err(MalformedRegionField("permissions-write", <<"q">>))

\* C7: the parsed file is the whole remainder of the line after the fifth
\* field, spaces included.
C7_FileIsRestOfLine ==
    (ppc # "input" /\ parsed.ok) => parsed.val.file = RestOfLine(line)

\* C8 as stated: with five fields present, a start-end that does not split on
\* a single '-' into two hex halves fails with MalformedRegionField "start-end".
C8_Original ==
    (ppc # "input" /\ FieldCount(line) >= 5 /\ BadStartEnd(Field(line, 1))) =>
        /\ ~parsed.ok
        /\ parsed.err.kind = "MalformedRegionField"
        /\ parsed.err.field = "start-end"

\* C8 amended: without any '-' the failure is MalformedRegionField "start-end";
\* with one, the halves around the first '-' are parsed and a half that is not
\* a base-16 unsigned integer fails with ParseIntError.
C8_StartEndFailure ==
    (ppc # "input" /\ FieldCount(line) >= 5 /\ BadStartEnd(Field(line, 1))) =>
        /\ ~parsed.ok
        /\ IF Positions(Field(line, 1), "-") = {}
           THEN parsed.err = MalformedRegionField("start-end", Field(line, 1))
           ELSE parsed.err = ParseIntError

\* A start-end with two '-': the second half "2-3" is no hex number.
C8_Witness ==
    /\ ppc = "parsed"
    /\ FieldCount(line) >= 5
    /\ Field(line, 1) = Chars("1-2-3")
    /\ parsed = Err(ParseIntError)

C10_OpenOnceAndReuse ==
    /\ opened <= 1
    /\ process # None =>
          \/ (process[1].mem = None /\ opened = 0)
          \/ (process[1].mem = Some(1) /\ opened = 1)
    /\ \A i \in 1..Len(last) :
          /\ last[i].tried = (last[i].memBefore = None)
          /\ (last[i].memBefore # None /\ process # None)
                => process[1].mem = last[i].memBefore
          /\ OpenFailed(last[i]) =>
                /\ last[i].result.err.kind = "IO"
                /\ process # None => process[1].mem = None
                /\ Visible(buffer) = last[i].pre
          /\ (last[i].result.outcome = "Ok" /\ process # None) => process[1].mem # None

\* A dump that found the handle of an earlier dump and did not open again.
C10_Witness ==
    /\ last # None
    /\ last[1].memBefore = Some(1)
    /\ ~last[1].tried
    /\ opened = 1
    /\ pc = "session"

====
